---- MODULE Spec2Model ----
(***************************************************************************)
(* Depression extraction (lidar/filling.py) and DEM inversion for mounts   *)
(* (lidar/mounts.py).  A raster is a sequence of rows, each a sequence of  *)
(* numbers, like the 2-D arrays of the source; a cell is <<row, col>>.      *)
(***************************************************************************)
EXTENDS Integers, Sequences, FiniteSets, TLC

\* ---------------------------------------------------------------- bounds
Rows == 4
Cols == 4
MaxElev == 3
MaxMinSize == 1
MaxCellSize == 2
MaxDelta == 2
MaxInterval == 2
MaxMinHeight == 1
MaxFlips == 2

\* DelineateMounts calls FlipDEM(dem, delta=100, ...)
DefaultDelta == 100

\* ------------------------------------------------------- raster helpers
NRows(g) == Len(g)

NCols(g) == IF Len(g) = 0 THEN 0 ELSE Len(g[1])

CellsOf(g) == (1..NRows(g)) \X (1..NCols(g))

At(g, c) == g[c[1]][c[2]]

Max2(a, b) == IF a >= b THEN a ELSE b

SetMax(S) == CHOOSE x \in S : \A y \in S : y <= x

SetMin(S) == CHOOSE x \in S : \A y \in S : x <= y

RECURSIVE SetSum(_)
SetSum(S) == IF S = {} THEN 0 ELSE LET x == CHOOSE y \in S : TRUE IN x[2] + SetSum(S \ {x})

\* the cells of a raster in row-major (raster scan) order
Raster(g) ==
  [i \in 1..(NRows(g) * NCols(g)) |-> <<((i - 1) \div NCols(g)) + 1, ((i - 1) % NCols(g)) + 1>>]

\* the rows and cells of g laid out as an array (a sequence of sequences)
AsArray(g) == [r \in 1..Len(g) |-> g[r] \o <<>>] \o <<>>

\* elementwise a - b of two rasters of one shape
Minus(a, b) == AsArray([r \in 1..NRows(a) |-> [c \in 1..NCols(a) |-> a[r][c] - b[r][c]]])

\* richdem's D8 neighbourhood, in its dx/dy order (W, NW, N, NE, E, SE, S, SW)
D8 == << <<0, -1>>, <<-1, -1>>, <<-1, 0>>, <<-1, 1>>, <<0, 1>>, <<1, 1>>, <<1, 0>>, <<1, -1>> >>

Nbrs8(g, c) == SelectSeq([i \in 1..8 |-> <<c[1] + D8[i][1], c[2] + D8[i][2]>>],
                         LAMBDA n : n \in CellsOf(g))

SeqSet(s) == {s[i] : i \in 1..Len(s)}

\* scipy.ndimage's default structuring element: the 4-neighbourhood
Adj4(a, b) == \/ a[1] = b[1] /\ (a[2] - b[2] = 1 \/ b[2] - a[2] = 1)
              \/ a[2] = b[2] /\ (a[1] - b[1] = 1 \/ b[1] - a[1] = 1)

isEdgeCell(g, c) == c[1] = 1 \/ c[2] = 1 \/ c[1] = NRows(g) \/ c[2] = NCols(g)

\* --------------------------------------------- rd.FillDepressions (D8)
\* the cells the priority queue starts with: edge cells and the cells next to a
\* no-data cell, at their raw elevation
isSeedEdgeOnly(dem, no_data, c) == At(dem, c) # no_data /\ isEdgeCell(dem, c)

isSeed(dem, no_data, c) ==
  /\ At(dem, c) # no_data
  /\ \/ isEdgeCell(dem, c)
     \/ \E n \in SeqSet(Nbrs8(dem, c)) : At(dem, n) = no_data

\* pop the lowest cell (first inserted among ties), raise each unresolved
\* neighbour to max(popped.filled, neighbour.raw), mark it and push it
RaiseToPopped(popped, raw) == popped

RaiseTo(popped, raw) == Max2(popped, raw)

RECURSIVE PriorityFlood(_, _, _, _)
PriorityFlood(dem, filled, flag, pq) ==
  IF pq = <<>> THEN filled
  ELSE LET i == CHOOSE k \in 1..Len(pq) :
                   /\ \A j \in 1..Len(pq) : At(filled, pq[j]) >= At(filled, pq[k])
                   /\ \A j \in 1..(k - 1) : At(filled, pq[j]) > At(filled, pq[k])
           c == pq[i]
           rest == [j \in 1..(Len(pq) - 1) |-> IF j < i THEN pq[j] ELSE pq[j + 1]]
           new == SelectSeq(Nbrs8(dem, c), LAMBDA n : n \notin flag)
           filled2 == AsArray([r \in 1..NRows(dem) |-> [cc \in 1..NCols(dem) |->
                         IF <<r, cc>> \in SeqSet(new)
                         THEN RaiseTo(At(filled, c), dem[r][cc])
                         ELSE filled[r][cc]]])
       IN PriorityFlood(dem, filled2, flag \cup SeqSet(new), rest \o new)

FillDepressions(dem, no_data) ==
  LET seeds == SelectSeq(Raster(dem), LAMBDA c : isSeed(dem, no_data, c))
      nodata == {c \in CellsOf(dem) : At(dem, c) = no_data}
  IN PriorityFlood(dem, dem, nodata \cup SeqSet(seeds), seeds)

\* ------------------------------------------------ ndimage.label, bincount
RECURSIVE Grow(_, _)
Grow(S, front) ==
  LET nxt == front \cup {n \in S : \E m \in front : Adj4(m, n)}
  IN IF nxt = front THEN front ELSE Grow(S, nxt)

\* the 4-connected components of the non-zero cells, in the raster order of their
\* first cell: component k gets label k
RECURSIVE LabelScan(_, _, _, _, _)
LabelScan(S, order, i, seen, comps) ==
  IF i > Len(order) THEN comps
  ELSE IF order[i] \in S /\ order[i] \notin seen
       THEN LET comp == Grow(S, {order[i]})
            IN LabelScan(S, order, i + 1, seen \cup comp, Append(comps, comp))
       ELSE LabelScan(S, order, i + 1, seen, comps)

label(img) ==
  LET S == {c \in CellsOf(img) : At(img, c) # 0}
      comps == LabelScan(S, Raster(img), 1, {}, <<>>)
  IN [label_objects |-> AsArray([r \in 1..NRows(img) |-> [c \in 1..NCols(img) |->
                          IF <<r, c>> \in S
                          THEN CHOOSE k \in 1..Len(comps) : <<r, c>> \in comps[k]
                          ELSE 0]]),
      nb_labels |-> Len(comps)]

\* np.bincount(label_objects.ravel()): the pixel count of label k, kept at index k + 1
bincount(labels, n) ==
  [i \in 1..(n + 1) |-> Cardinality({c \in CellsOf(labels) : At(labels, c) = i - 1})] \o <<>>

\* ---------------------------------------------------------- regionGroup
KeepSize(size, min_size) == size > min_size

\* img_array[img_array == no_data] = 0, done in place on the caller's raster
MaskNoData(img_array, no_data) ==
  AsArray([r \in 1..NRows(img_array) |-> [c \in 1..NCols(img_array) |->
     IF img_array[r][c] = no_data THEN 0 ELSE img_array[r][c]]])

\* mask_sizes = sizes > min_size; mask_sizes[0] = 0 : the labels whose mask is set
mask_sizes(sizes, min_size) == {k \in 1..(Len(sizes) - 1) : KeepSize(sizes[k + 1], min_size)}

regionGroup(img_array, min_size, no_data) ==
  LET img == MaskNoData(img_array, no_data)
      first == label(img)
      keep == mask_sizes(bincount(first.label_objects, first.nb_labels), min_size)
      image_cleaned == AsArray([r \in 1..NRows(img) |-> [c \in 1..NCols(img) |->
                          IF first.label_objects[r][c] \in keep THEN 1 ELSE 0]])
  IN label(image_cleaned)

\* ----------------------------------------- floats that are not integers
RECURSIVE GCD(_, _)
GCD(a, b) == IF b = 0 THEN a ELSE GCD(b, a % b)

Abs(x) == IF x < 0 THEN -x ELSE x

\* the quotient n / d (d > 0) as a reduced fraction
Quot(n, d) == LET g == GCD(Abs(n), d) IN [num |-> n \div g, den |-> d \div g]

Times(f, k) == Quot(f.num * k, f.den)

\* "{:.2f}".format(x) as a count of hundredths, rounded to nearest
Fmt2(f) == (2 * 100 * f.num + f.den) \div (2 * f.den)

\* --------------------------------- measure.regionprops and get_dep_props
\* one object per label 1..nb_labels, in label order, measured on the intensity raster
regionprops(labels, nb, intensity) ==
  [k \in 1..nb |->
     LET px == {c \in CellsOf(labels) : At(labels, c) = k}
     IN [label |-> k,
         area |-> Cardinality(px),
         min_intensity |-> SetMin({At(intensity, c) : c \in px}),
         max_intensity |-> SetMax({At(intensity, c) : c \in px}),
         intensity_sum |-> SetSum({<<c, At(intensity, c)>> : c \in px})]] \o <<>>

mean_depth_reversed(max_elev, count, total) == Quot(total - max_elev * count, count)

mean_depth(max_elev, count, total) == Quot(max_elev * count - total, count)

volume_linear(meanDepth, count, resolution) == Times(meanDepth, count * resolution)

volume(meanDepth, count, resolution) == Times(meanDepth, count * resolution * resolution)

Depression(object, resolution) ==
  LET count == object.area
      min_elev == object.min_intensity
      max_elev == object.max_intensity
      md == mean_depth(max_elev, count, object.intensity_sum)
  IN [id |-> object.label,
      count |-> count,
      size |-> count * resolution * resolution,
      volume |-> volume(md, count, resolution),
      meanDepth |-> md,
      maxDepth |-> max_elev - min_elev,
      minElev |-> min_elev,
      bndElev |-> max_elev]

get_dep_props(objects, resolution) ==
  [k \in 1..Len(objects) |-> Depression(objects[k], resolution)] \o <<>>

write_dep_csv(dep_list) ==
  [k \in 1..Len(dep_list) |->
     LET dep == dep_list[k]
     IN <<dep.id, dep.count, dep.size, Fmt2(dep.volume), Fmt2(dep.meanDepth),
          100 * dep.maxDepth, 100 * dep.minElev, 100 * dep.bndElev>>] \o <<>>

\* ------------------------------------------------------------- the state
VARIABLES
  pc,              \* the step ExtractSinks (or the caller) is at
  in_dem,          \* the raster file handed in
  no_data,         \* its no-data sentinel
  cell_size,       \* geotransform[1]
  min_size,
  dem, dem_filled, dem_diff, label_objects, nb_labels, dep_list, region, sink,
  out_dem_filled, out_dem_diff, out_depth, out_csv_file, out_sink, out_dem, out_region,
  delta,           \* FlipDEM's base value
  prev_dem,        \* the raster the latest FlipDEM was applied to
  flips,           \* how many times FlipDEM has been applied
  mode,            \* "sinks": depressions of the raster; "mounts": of the flipped raster
  min_height, interval,
  level,           \* the slicing level the sweep is at
  nodes            \* the hierarchy built so far

inputs == <<in_dem, no_data, cell_size, min_size>>
arrays == <<dem, dem_filled, dem_diff, label_objects, nb_labels, dep_list, region, sink>>
files == <<out_dem_filled, out_dem_diff, out_depth, out_csv_file, out_sink, out_dem, out_region>>
flipv == <<delta, prev_dem, flips>>
hier == <<mode, min_height, interval, level, nodes>>
vars == <<pc, inputs, arrays, files, flipv, hier>>

\* a file not written, an array not computed
None == <<>>

\* --------------------------------------------------------------- inputs
NoDataVals == {-1, 1}

Vals(nd) == {nd} \cup (1..MaxElev)

\* the cells left free: the inner block next to the top-left corner
Window == (2..3) \X (2..3)

\* the raster at level b, but for the corner <<1, 1>> at o and the window cells
Terrain(in, b, o) ==
  AsArray([r \in 1..Rows |-> [c \in 1..Cols |->
     IF <<r, c>> \in Window THEN in[<<r, c>>] ELSE IF r = 1 /\ c = 1 THEN o ELSE b]])

\* every window and level, the corner at that level, at the lowest one or no-data
Terrains(nd) ==
  {Terrain(in, b, o) : in \in [Window -> Vals(nd)], b \in Vals(nd), o \in {nd, 1}}
    \cup {Terrain(in, b, b) : in \in [Window -> Vals(nd)], b \in Vals(nd)}

\* the same with the corner at the level of the rest
Basins(nd) == {Terrain(in, b, b) : in \in [Window -> Vals(nd)], b \in Vals(nd)}

\* a window inside a rim at the lowest or the highest level
Plateaus(nd) == {Terrain(in, b, b) : in \in [Window -> Vals(nd)], b \in {1, MaxElev}}

\* an interior pixel at 1, a ring at 5 around it, the edge at 10
SinglePit ==
  AsArray([r \in 1..5 |-> [c \in 1..5 |->
     IF r \in {1, 5} \/ c \in {1, 5} THEN 10 ELSE IF r = 3 /\ c = 3 THEN 1 ELSE 5]])

InitFlip == delta = 0 /\ prev_dem = None /\ flips = 0

InitHier == mode = "sinks" /\ min_height = 0 /\ interval = 1 /\ level = 0 /\ nodes = <<>>

InitArrays ==
  /\ dem = None /\ dem_filled = None /\ dem_diff = None /\ label_objects = None
  /\ nb_labels = 0 /\ dep_list = None /\ region = None /\ sink = None

InitFiles ==
  /\ out_dem_filled = None /\ out_dem_diff = None /\ out_depth = None
  /\ out_csv_file = None /\ out_sink = None /\ out_dem = None /\ out_region = None

\* every terrain (and the empty raster) at cell size 1 with the extreme min_size; the
\* basins and the single pit at every cell size with min_size = 0
Init ==
  /\ pc = "start"
  /\ no_data \in NoDataVals
  /\ \/ /\ in_dem \in Terrains(no_data) \cup {<<>>}
        /\ cell_size = 1
        /\ min_size \in {0, MaxMinSize}
     \/ /\ in_dem \in Basins(no_data) \cup {SinglePit}
        /\ cell_size \in 1..MaxCellSize
        /\ min_size = 0
  /\ InitArrays
  /\ InitFiles
  /\ InitFlip
  /\ InitHier

\* --------------------------------------------------------- ExtractSinks
\* np.max(dem) and np.min(dem[dem > 0]) raise on an empty selection
HasAnyCell(g) == CellsOf(g) # {}

HasPositive(g) == \E c \in CellsOf(g) : At(g, c) > 0

Load ==
  /\ pc = "start"
  /\ dem' = in_dem
  /\ pc' = IF HasPositive(in_dem) THEN "fill" ELSE "error"
  /\ UNCHANGED <<inputs, dem_filled, dem_diff, label_objects, nb_labels, dep_list, region, sink, files>>
  /\ UNCHANGED <<flipv, hier>>

Diff(filled, raw) == Minus(filled, raw)

Fill ==
  /\ pc = "fill"
  /\ dem_filled' = FillDepressions(dem, no_data)
  /\ dem_diff' = Diff(dem_filled', dem)
  /\ pc' = "save_filled"
  /\ UNCHANGED <<inputs, dem, label_objects, nb_labels, dep_list, region, sink, files>>
  /\ UNCHANGED <<flipv, hier>>

SaveFilled ==
  /\ pc = "save_filled"
  /\ out_dem_filled' = dem_filled
  /\ out_dem_diff' = dem_diff
  /\ pc' = "region"
  /\ UNCHANGED <<inputs, arrays, out_depth, out_csv_file, out_sink, out_dem, out_region>>
  /\ UNCHANGED <<flipv, hier>>

\* dem_diff[label_objects == 0] = 0
ZeroBackground(diff, labels) ==
  AsArray([r \in 1..NRows(diff) |-> [c \in 1..NCols(diff) |-> IF labels[r][c] = 0 THEN 0 ELSE diff[r][c]]])

RegionGroup ==
  /\ pc = "region"
  /\ \E res \in {regionGroup(dem_diff, min_size, no_data)} :
        /\ label_objects' = res.label_objects
        /\ nb_labels' = res.nb_labels
        /\ dem_diff' = ZeroBackground(MaskNoData(dem_diff, no_data), res.label_objects)
  /\ out_depth' = dem_diff'
  /\ pc' = "props"
  /\ UNCHANGED <<inputs, dem, dem_filled, dep_list, region, sink,
                 out_dem_filled, out_dem_diff, out_csv_file, out_sink, out_dem, out_region>>
  /\ UNCHANGED <<flipv, hier>>

ComputeProps ==
  /\ pc = "props"
  /\ dep_list' = get_dep_props(regionprops(label_objects, nb_labels, dem), cell_size)
  /\ out_csv_file' = write_dep_csv(dep_list')
  /\ pc' = "sink"
  /\ UNCHANGED <<inputs, dem, dem_filled, dem_diff, label_objects, nb_labels, region, sink,
                 out_dem_filled, out_dem_diff, out_depth, out_sink, out_dem, out_region>>
  /\ UNCHANGED <<flipv, hier>>

\* sink = np.copy(dem); sink[region == 0] = 0
SinkOf(raw, reg) ==
  AsArray([r \in 1..NRows(raw) |-> [c \in 1..NCols(raw) |-> IF reg[r][c] = 0 THEN 0 ELSE raw[r][c]]])

SaveSink ==
  /\ pc = "sink"
  /\ region' = label_objects
  /\ sink' = SinkOf(dem, region')
  /\ out_sink' = sink'
  /\ pc' = "refine"
  /\ UNCHANGED <<inputs, dem, dem_filled, dem_diff, label_objects, nb_labels, dep_list,
                 out_dem_filled, out_dem_diff, out_depth, out_csv_file, out_dem, out_region>>
  /\ UNCHANGED <<flipv, hier>>

\* dem_refined = dem_filled; dem_refined[region > 0] = dem[region > 0]
RefinedRaw(filled, raw, reg) == raw

Refined(filled, raw, reg) ==
  AsArray([r \in 1..NRows(raw) |-> [c \in 1..NCols(raw) |-> IF reg[r][c] > 0 THEN raw[r][c] ELSE filled[r][c]]])

SaveRefined ==
  /\ pc = "refine"
  /\ dem_filled' = Refined(dem_filled, dem, region)
  /\ out_dem' = dem_filled'
  /\ out_region' = region
  /\ pc' = "done"
  /\ UNCHANGED <<inputs, dem, dem_diff, label_objects, nb_labels, dep_list, region, sink,
                 out_dem_filled, out_dem_diff, out_depth, out_csv_file, out_sink>>
  /\ UNCHANGED <<flipv, hier>>

ExtractSinks == Load \/ Fill \/ SaveFilled \/ RegionGroup \/ ComputeProps \/ SaveSink \/ SaveRefined

Next == ExtractSinks

Spec == Init /\ [][Next]_vars

\* -------------------------------------------------------------- FlipDEM
\* dem[dem != no_data] is empty: np.max raises
HasValid(g, nd) == \E c \in CellsOf(g) : At(g, c) # nd

\* np.max(dem[dem != no_data])
max_valid(g, nd) == SetMax({At(g, c) : c \in {d \in CellsOf(g) : At(g, d) # nd}})

InvertedLessDelta(x, max_elev, d) == x * (-1) + max_elev - d

Inverted(x, max_elev, d) == x * (-1) + max_elev + d

FlipDEM(g, nd, d) ==
  LET max_elev == max_valid(g, nd)
      flipped == AsArray([r \in 1..NRows(g) |-> [c \in 1..NCols(g) |-> Inverted(g[r][c], max_elev, d)]])
  IN AsArray([r \in 1..NRows(g) |-> [c \in 1..NCols(g) |->
        IF flipped[r][c] = nd * (-1) THEN nd ELSE flipped[r][c]]])

\* FlipDEM applied to the array in hand, up to MaxFlips times in a row
Flip ==
  /\ pc = "flip"
  /\ flips < MaxFlips
  /\ IF HasValid(dem, no_data)
     THEN /\ prev_dem' = dem
          /\ dem' = FlipDEM(dem, no_data, delta)
          /\ flips' = flips + 1
          /\ pc' = pc
     ELSE /\ pc' = "error"
          /\ UNCHANGED <<prev_dem, dem, flips>>
  /\ UNCHANGED <<inputs, dem_filled, dem_diff, label_objects, nb_labels, dep_list, region, sink,
                 files, delta, hier>>

InitFlipDEM ==
  /\ pc = "flip"
  /\ no_data \in NoDataVals
  /\ in_dem \in Terrains(no_data)
  /\ dem = in_dem
  /\ delta \in 0..MaxDelta
  /\ cell_size = 1 /\ min_size = 0
  /\ dem_filled = None /\ dem_diff = None /\ label_objects = None
  /\ nb_labels = 0 /\ dep_list = None /\ region = None /\ sink = None
  /\ InitFiles
  /\ prev_dem = None /\ flips = 0
  /\ InitHier

NextFlip == Flip

SpecFlip == InitFlipDEM /\ [][NextFlip]_vars

\* ------------------------------------------------------ DelineateMounts
\* flip the raster with delta = 100, save it, and hand the saved file to ExtractSinks
MountFlip ==
  /\ pc = "mount"
  /\ IF HasValid(in_dem, no_data)
     THEN /\ prev_dem' = in_dem
          /\ in_dem' = FlipDEM(in_dem, no_data, DefaultDelta)
          /\ pc' = "start"
     ELSE /\ pc' = "error"
          /\ UNCHANGED <<prev_dem, in_dem>>
  /\ UNCHANGED <<no_data, cell_size, min_size, arrays, files, delta, flips, hier>>

\* ------------------------------------- the level sweep (DelineateDepressions)
\* depth - L, clipped at 0
Threshold(depth, L) ==
  AsArray([r \in 1..NRows(depth) |-> [c \in 1..NCols(depth) |-> Max2(depth[r][c] - L, 0)]])

\* the node one level below whose footprint holds fp, 0 when there is none
ParentFirst(built, L, step, fp) ==
  IF \E i \in 1..Len(built) : built[i].level = L - step
  THEN CHOOSE i \in 1..Len(built) : built[i].level = L - step
  ELSE 0

ParentOf(built, L, step, fp) ==
  IF \E i \in 1..Len(built) : built[i].level = L - step /\ fp \subseteq built[i].footprint
  THEN CHOOSE i \in 1..Len(built) : built[i].level = L - step /\ fp \subseteq built[i].footprint
  ELSE 0

\* the regions of level L that are at least min_height deep, linked to their parents
LevelNodes(built, depth, raw, L, step, size, height, resolution) ==
  LET res == regionGroup(Threshold(depth, L), size, 0)
      deps == get_dep_props(regionprops(res.label_objects, res.nb_labels, raw), resolution)
      kept == SelectSeq(deps, LAMBDA d : d.maxDepth >= height)
  IN [k \in 1..Len(kept) |->
        LET fp == {c \in CellsOf(depth) : At(res.label_objects, c) = kept[k].id}
        IN [level |-> L, footprint |-> fp, parent |-> ParentOf(built, L, step, fp),
            dep |-> kept[k]]] \o <<>>

StartSweep ==
  /\ pc = "done"
  /\ pc' = IF interval <= 0 \/ min_height < 0 THEN "error" ELSE "slice"
  /\ level' = 0
  /\ nodes' = <<>>
  /\ UNCHANGED <<inputs, arrays, files, flipv, mode, min_height, interval>>

Slice ==
  /\ pc = "slice"
  /\ \E new \in {LevelNodes(nodes, out_dem_diff, dem, level, interval, min_size, min_height,
                             cell_size)} :
        IF level > SetMax({At(out_dem_diff, c) : c \in CellsOf(out_dem_diff)}) \/ new = <<>>
        THEN pc' = "swept" /\ UNCHANGED <<level, nodes>>
        ELSE pc' = pc /\ level' = level + interval /\ nodes' = nodes \o new
  /\ UNCHANGED <<inputs, arrays, files, flipv, mode, min_height, interval>>

InitHierarchy ==
  /\ mode \in {"sinks", "mounts"}
  /\ pc = IF mode = "mounts" THEN "mount" ELSE "start"
  /\ no_data \in NoDataVals
  /\ in_dem \in Plateaus(no_data)
  /\ cell_size = 1
  /\ min_size \in {0, MaxMinSize}
  /\ interval \in {1, MaxInterval}
  /\ min_height \in {0, MaxMinHeight}
  /\ level = 0 /\ nodes = <<>>
  /\ InitArrays
  /\ InitFiles
  /\ InitFlip

NextHier == MountFlip \/ ExtractSinks \/ StartSweep \/ Slice

SpecHier == InitHierarchy /\ [][NextHier]_vars

\* ================================================================ claims
Filled == pc \in {"save_filled", "region", "props", "sink", "refine", "done"}

Valid(c) == At(dem, c) # no_data

\* C1: every cell that is not no-data has filled >= raw, and the difference
\* filled - raw that ExtractSinks computes is >= 0 at every cell.
C1_FillMonotone ==
  Filled => \A c \in CellsOf(dem) :
              /\ Valid(c) => At(dem_filled, c) >= At(dem, c)
              /\ At(dem_diff, c) >= 0
              /\ out_dem_diff # None => At(out_dem_diff, c) >= 0

C1_Witness ==
  /\ pc = "save_filled"
  /\ \E c \in CellsOf(dem) : At(dem_filled, c) > At(dem, c)
  /\ \E c \in CellsOf(dem) : ~Valid(c)

\* the cells a path may end at: on the edge of the raster or next to a no-data cell
Outlet(c) ==
  /\ Valid(c)
  /\ \/ c[1] \in {1, NRows(dem)} \/ c[2] \in {1, NCols(dem)}
     \/ \E n \in CellsOf(dem) :
           /\ n # c /\ n[1] - c[1] \in -1..1 /\ n[2] - c[2] \in -1..1
           /\ ~Valid(n)

Near8(a, b) == a # b /\ a[1] - b[1] \in -1..1 /\ a[2] - b[2] \in -1..1

RECURSIVE Spread(_, _)
Spread(S, front) ==
  LET nxt == front \cup {n \in S : \E m \in front : Near8(m, n)}
  IN IF nxt = front THEN front ELSE Spread(S, nxt)

\* the cells joined to an outlet by a neighbour path that stays at or below t
Drained(t) ==
  LET low == {c \in CellsOf(dem) : Valid(c) /\ At(dem, c) <= t}
  IN Spread(low, {c \in low : Outlet(c)})

Levels == {At(dem, d) : d \in {e \in CellsOf(dem) : Valid(e)}}

\* C2: after the sweep every cell that is not no-data holds its lowest escape
\* elevation, the least over the neighbour paths from the cell to an outlet of the
\* highest raw elevation on the path: the cell is drained at level t exactly when
\* its filled elevation is at most t. No-data cells are untouched, and no cell away
\* from the outlets is strictly lower than all its neighbours.
C2_LowestEscape ==
  pc = "save_filled" =>
    /\ \A t \in Levels :
         LET drained == Drained(t)
         IN \A c \in CellsOf(dem) : Valid(c) => (c \in drained <=> At(dem_filled, c) <= t)
    /\ \A c \in CellsOf(dem) :
         /\ Valid(c) => At(dem_filled, c) \in Levels
         /\ ~Valid(c) => At(dem_filled, c) = no_data
         /\ (Valid(c) /\ ~Outlet(c)) =>
               \E n \in CellsOf(dem) : Near8(n, c) /\ At(dem_filled, n) <= At(dem_filled, c)

C2_Witness ==
  /\ pc = "save_filled"
  /\ \E c, d \in CellsOf(dem) :
        /\ c # d /\ ~Outlet(c) /\ ~Outlet(d) /\ Valid(c) /\ Valid(d)
        /\ At(dem_filled, c) > At(dem, c) /\ At(dem_filled, d) = At(dem, d)
        /\ At(dem_filled, c) < SetMax({At(dem, e) : e \in CellsOf(dem)})
  /\ \E c \in CellsOf(dem) : ~Valid(c)

Labelled == pc \in {"props", "sink", "refine", "done"}

Pixels(k) == {c \in CellsOf(label_objects) : At(label_objects, c) = k}

\* the cells of positive depth in the difference raster handed to regionGroup
Deep == {c \in CellsOf(out_dem_diff) : At(out_dem_diff, c) > 0}

\* C3: each cell has one label in 0..nb_labels; every label 1..nb_labels is a
\* maximal 4-connected component of the cells of positive depth with at least
\* min_size pixels; label 0 is the rest, and a cell of positive depth has label 0
\* only when its component has at most min_size pixels.
C3_LabelPartition ==
  Labelled =>
    /\ \A c \in CellsOf(label_objects) : At(label_objects, c) \in 0..nb_labels
    /\ \A k \in 1..nb_labels :
         /\ Pixels(k) # {}
         /\ \A c \in Pixels(k) : c \in Deep /\ Pixels(k) = Grow(Deep, {c})
         /\ Cardinality(Pixels(k)) >= min_size
    /\ \A c \in Deep :
         At(label_objects, c) = 0 => Cardinality(Grow(Deep, {c})) <= min_size

\* C4: every Depression has maxDepth = maxElev - minElev >= meanDepth >= 0,
\* area = count * resolution^2, volume = meanDepth * area, and
\* meanDepth = (maxElev * count - sum of the raw elevations of the region) / count.
C4_AttributeConsistency ==
  (dep_list # None /\ pc # "props") =>
    \A k \in 1..Len(dep_list) :
       LET d == dep_list[k]
           raw == {<<c, At(dem, c)>> : c \in Pixels(d.id)}
       IN /\ d.count = Cardinality(Pixels(d.id)) /\ d.count >= 1
          /\ d.minElev = SetMin({e[2] : e \in raw})
          /\ d.bndElev = SetMax({e[2] : e \in raw})
          /\ d.maxDepth = d.bndElev - d.minElev
          /\ d.meanDepth.num * d.count = d.meanDepth.den * (d.bndElev * d.count - SetSum(raw))
          /\ d.meanDepth.num >= 0 /\ d.meanDepth.den > 0
          /\ d.meanDepth.num <= d.maxDepth * d.meanDepth.den
          /\ d.size = d.count * cell_size * cell_size
          /\ d.volume.num * d.meanDepth.den = d.volume.den * d.meanDepth.num * d.size

C4_Witness ==
  /\ pc = "sink"
  /\ \E k \in 1..Len(dep_list) :
        /\ dep_list[k].count >= 3
        /\ dep_list[k].meanDepth.den > 1
        /\ dep_list[k].maxDepth >= 2
        /\ cell_size > 1

\* the single-pit raster, none of its cells being no-data, run with min_size = 0
PitRun ==
  /\ in_dem = SinglePit /\ min_size = 0 /\ pc = "done"
  /\ \A c \in CellsOf(in_dem) : At(in_dem, c) # no_data

\* C5 as stated: on the single-pit raster the fill raises the pit to 5, one cell has
\* positive depth (4), and the one region has 1 pixel, maxDepth 4, meanDepth 4,
\* volume 4 * resolution^2.
C5_SinglePit_AsStated ==
  PitRun =>
    /\ out_dem_filled[3][3] = 5
    /\ {c \in CellsOf(out_dem_diff) : At(out_dem_diff, c) > 0} = {<<3, 3>>}
    /\ out_dem_diff[3][3] = 4
    /\ Len(dep_list) = 1
    /\ dep_list[1].count = 1
    /\ dep_list[1].maxDepth = 4
    /\ dep_list[1].meanDepth = Quot(4, 1)
    /\ dep_list[1].volume = Quot(4 * cell_size * cell_size, 1)

\* C5 amended: the edge at 10 encloses the ring too, so the fill raises the pit and
\* the ring to 10; nine cells have positive depth (9 at the pit, 5 on the ring); the
\* one region has 9 pixels, maxDepth 4, meanDepth 4/9 and volume 4 * resolution^2.
C5_SinglePit ==
  PitRun =>
    /\ \A c \in CellsOf(dem) : At(out_dem_filled, c) = 10
    /\ {c \in CellsOf(out_dem_diff) : At(out_dem_diff, c) > 0} = (2..4) \X (2..4)
    /\ out_dem_diff[3][3] = 9
    /\ \A c \in ((2..4) \X (2..4)) \ {<<3, 3>>} : At(out_dem_diff, c) = 5
    /\ nb_labels = 1 /\ Len(dep_list) = 1
    /\ dep_list[1].count = 9
    /\ dep_list[1].maxDepth = 4
    /\ dep_list[1].meanDepth = Quot(4, 9)
    /\ dep_list[1].volume = Quot(4 * cell_size * cell_size, 1)

C5_Witness == PitRun /\ cell_size > 1

NoneWritten ==
  /\ out_dem_filled = None /\ out_dem_diff = None /\ out_depth = None
  /\ out_csv_file = None /\ out_sink = None /\ out_dem = None /\ out_region = None

AllWritten ==
  /\ out_dem_filled # None /\ out_dem_diff # None /\ out_depth # None
  /\ out_sink # None /\ out_dem # None /\ out_region # None

NoUsableCell == \A c \in CellsOf(in_dem) : At(in_dem, c) = no_data

\* C9 as stated: a run with a non-positive min_size, or on an empty or all-no-data
\* raster, never gets past the load: it ends in the error outcome with the fill
\* not started and nothing written.
C9_Rejected_AsStated ==
  (min_size <= 0 \/ NoUsableCell) =>
    /\ pc \in {"start", "error"}
    /\ dem_filled = None
    /\ NoneWritten

\* C9 amended: min_size is not validated. A run ends in the error outcome, before
\* the fill and with nothing written, exactly when the raster has no cell above 0
\* (an empty raster, an all-no-data raster whose sentinel is not positive); every
\* other run, whatever min_size is, goes through the fill and writes every output,
\* the size filter using min_size as given (with min_size <= 0 every cell of
\* non-zero masked depth is labelled).
C9_OnlyUnusableRastersRejected ==
  LET unusable == \A c \in CellsOf(in_dem) : At(in_dem, c) <= 0
  IN /\ pc = "error" => unusable /\ dem_filled = None /\ NoneWritten
     /\ unusable => pc \in {"start", "error"}
     /\ pc = "done" =>
          /\ AllWritten
          /\ min_size <= 0 =>
                \A c \in CellsOf(dem) :
                   (At(out_dem_diff, c) \notin {0, no_data}) => At(out_region, c) > 0

C9_Witness ==
  /\ pc = "done" /\ min_size <= 0 /\ nb_labels >= 1 /\ AllWritten
  /\ \E c \in CellsOf(dem) : ~Valid(c)

\* C10: the saved filled DEM is the fill output and the saved difference is
\* filled - raw; at the end the depth raster is non-zero exactly on the labelled
\* cells, the sink raster is the raw elevation there and 0 elsewhere, and the
\* refined DEM (the filled buffer itself) is raw on the labelled cells and filled
\* everywhere else.
C10_OutputComposition ==
  /\ pc = "region" => out_dem_filled = dem_filled /\ out_dem_diff = dem_diff
  /\ pc = "done" =>
       /\ out_dem_filled = FillDepressions(dem, no_data)
       /\ out_dem_diff = Minus(out_dem_filled, dem)
       /\ dem_filled = out_dem
       /\ \A c \in CellsOf(dem) :
            /\ At(out_depth, c) # 0 <=> At(out_region, c) > 0
            /\ At(out_sink, c) = IF At(out_region, c) > 0 THEN At(dem, c) ELSE 0
            /\ At(out_dem, c) = IF At(out_region, c) > 0 THEN At(dem, c)
                                ELSE At(out_dem_filled, c)

\* C6 as stated: FlipDEM applied twice with one delta gives back the original
\* elevation at every cell that is not no-data.
C6_RoundTrip_AsStated ==
  flips = 2 => \A c \in CellsOf(in_dem) : At(in_dem, c) # no_data => At(dem, c) = At(in_dem, c)

NoSentinel(g) == \A c \in CellsOf(g) : At(g, c) # no_data

\* C6 amended: FlipDEM applied twice with one delta shifts the raster by a constant:
\* every cell that holds the sentinel after neither application ends at its
\* original value plus (max of the once-flipped raster - max of the original); when
\* no cell holds the sentinel before, between or after, that constant is
\* delta - (minimum elevation), so the original comes back only when delta is the
\* minimum elevation.
C6_RoundTripShift ==
  flips = 2 =>
    /\ \A c \in CellsOf(in_dem) :
         (At(prev_dem, c) # no_data /\ At(dem, c) # no_data) =>
            At(dem, c) = At(in_dem, c) + max_valid(prev_dem, no_data) - max_valid(in_dem, no_data)
    /\ (NoSentinel(in_dem) /\ NoSentinel(prev_dem) /\ NoSentinel(dem)) =>
          \A c \in CellsOf(in_dem) :
             At(dem, c) = At(in_dem, c) + delta
                            - SetMin({At(in_dem, d) : d \in CellsOf(in_dem)})

C6_Witness ==
  /\ flips = 2
  /\ NoSentinel(in_dem) /\ NoSentinel(prev_dem) /\ NoSentinel(dem)
  /\ dem # in_dem
  /\ \E c, d \in CellsOf(in_dem) : At(in_dem, c) # At(in_dem, d)

\* C7: after FlipDEM a cell holds the no-data sentinel exactly when it held it
\* before.
C7_NoDataPreserved ==
  flips >= 1 => \A c \in CellsOf(dem) : At(dem, c) = no_data <=> At(prev_dem, c) = no_data

\* C8: a node with a parent lies one level above it and inside its footprint; the
\* nodes of level 0 have no parent; in the depression run and in the mount run.
C8_NestingContainment ==
  \A i \in 1..Len(nodes) :
     LET n == nodes[i]
     IN /\ n.level = 0 => n.parent = 0
        /\ n.parent # 0 =>
             /\ n.parent \in 1..Len(nodes)
             /\ nodes[n.parent].level = n.level - interval
             /\ n.footprint \subseteq nodes[n.parent].footprint

C8_Witness ==
  /\ mode = "mounts"
  /\ \E i, j \in 1..Len(nodes) :
        /\ i # j /\ nodes[i].parent # 0 /\ nodes[i].parent = nodes[j].parent
        /\ nodes[i].footprint # nodes[nodes[i].parent].footprint

C10_Witness ==
  /\ pc = "done"
  /\ \E c \in CellsOf(dem) :
        At(out_region, c) = 0 /\ At(out_dem_diff, c) > 0 /\ At(out_dem, c) > At(dem, c)
====
